---- MODULE Spec2Model ----
\* A model of the identity pool of src/index.js (class Identities): the in-memory
\* map with tombstones, the selection scan of get(), the single-flight creator
\* _createIdentity(), the lifecycle mutators and the debounced store sync.
\*
\* Time is a discrete clock `now` (one unit = one second); a Date is the value of
\* `now` when it was taken, and 0 stands for the falsy lock values (false, null).
\* The dedup() wrappers of @raychee/utils are modelled by their configuration in
\* the constructor and in _load: {key: null} is one shared in-flight promise for
\* all callers, {within, queue: 1} is one run at a time, at most one run per
\* window and at most one queued call.
EXTENDS Integers, Sequences, FiniteSets, TLC

\* ------------------------------------------------------------------ bounds
MaxIds == 2          \* ids the pool can ever hold (uuid4 never repeats one)
MaxTime == 3         \* the clock stops here
MaxDeprecated == 2   \* deprecate is not called on a counter above this
MaxCalls == 3        \* calls the consumers make in one run of Spec: get() and the mutators
MaxCreateCalls == 2  \* the same for SpecCreate
MaxStoreCalls == 3   \* the same for SpecStore
MaxPollCalls == 3    \* the same for SpecPoll
MaxMutCalls == 3     \* the same for SpecMut
MaxSyncCalls == 3    \* the same for SpecSync
MaxFreshCalls == 3   \* the same for SpecFresh
MaxLockCalls == 3    \* the same for SpecLock
MaxPushCalls == 3    \* the same for SpecPush
MaxLeaseCalls == 3   \* the same for SpecLease

Ids == 1..MaxIds
Callers == {"a", "b"}
NoCaller == "-"

VARIABLES
    opt,      \* this._options plus the constructor's stored / callbacks flags
    now,      \* Date.now()
    keys,     \* Object.keys(this._identities), in insertion order
    ident,    \* this._identities[id]; st = "absent" when id is not a key
    nextId,   \* the next id uuid4() hands out
    store,    \* the external store's identities fragment for this pool name
    pc,       \* each get() call: "idle", "await", "ready", "done"
    wantLock, \* the lock argument of each get() call
    waitOn,   \* the _createIdentity run a suspended get() call awaits (its starter)
    got,      \* what that run settled with, as seen by the caller
    res,      \* what get() returned or raised
    cr,       \* each caller's own run of the _createIdentity body
    slot,     \* dedup {key: null}: the starter of the in-flight _createIdentity
    sync,     \* dedup {within, queue: 1} around _syncStoreForce
    hist,     \* who removed each id, how the last flush ended, the leases (history only)
    calls     \* the number of calls the consumers may still make

vars == <<opt, now, keys, ident, nextId, store, pc, wantLock, waitOn, got, res, cr, slot, sync, hist, calls>>

\* ------------------------------------------------------------------ records
Absent == [st |-> "absent", data |-> 0, deprecated |-> 0, lastTimeUsed |-> 0, locked |-> 0]
Tomb == [st |-> "tomb", data |-> 0, deprecated |-> 0, lastTimeUsed |-> 0, locked |-> 0]

Live(id) == ident[id].st = "live"
IsKey(id) == ident[id].st # "absent"

\* lodash isEmpty(this._identities): no key at all (a tombstone is a key)
isEmpty == keys = <<>>

Max(a, b) == IF a >= b THEN a ELSE b

\* _makeOptions: the defaults, overridden by the options given
Defaults ==
    [maxDeprecationsBeforeRemoval |-> 1, minIntervalBetweenUse |-> 0,
     minIntervalBetweenStoreUpdate |-> 10, recentlyUsedFirst |-> TRUE,
     lockExpire |-> 600, maxRetryCreateIdentities |-> -1, allowNoIdentity |-> FALSE,
     waitForStoreUpdateWhenNoIdentity |-> FALSE, pollingIntervalWaitingForAvailable |-> 1]

_makeOptions(options) ==
    [f \in DOMAIN Defaults |-> IF f \in DOMAIN options THEN options[f] ELSE Defaults[f]]

\* ------------------------------------------------------------------ selection
\* _isAvailable(identity)
_isAvailableNoLock(i) ==
    i.lastTimeUsed <= now - opt.o.minIntervalBetweenUse

_isAvailableNoExpire(i) ==
    /\ i.locked = 0
    /\ i.lastTimeUsed <= now - opt.o.minIntervalBetweenUse

_isAvailable(i) ==
    /\ (i.locked = 0 \/ i.locked < now - opt.o.lockExpire)
    /\ i.lastTimeUsed <= now - opt.o.minIntervalBetweenUse

\* the scan loop of get(): the candidate kept after visiting ks, starting from best
\* (0 = no candidate yet)
RECURSIVE ScanLoopLastWins(_, _)
ScanLoopLastWins(ks, best) ==
    IF ks = <<>> THEN best
    ELSE LET id == Head(ks)
             i == ident[id]
             nb == IF i.st # "live" \/ ~_isAvailable(i) THEN best
                   ELSE IF best = 0 THEN id
                   ELSE IF opt.o.recentlyUsedFirst
                        THEN (IF i.lastTimeUsed >= ident[best].lastTimeUsed THEN id ELSE best)
                        ELSE (IF i.lastTimeUsed <= ident[best].lastTimeUsed THEN id ELSE best)
         IN ScanLoopLastWins(Tail(ks), nb)

RECURSIVE ScanLoop(_, _)
ScanLoop(ks, best) ==
    IF ks = <<>> THEN best
    ELSE LET id == Head(ks)
             i == ident[id]
             nb == IF i.st # "live" \/ ~_isAvailable(i) THEN best
                   ELSE IF best = 0 THEN id
                   ELSE IF opt.o.recentlyUsedFirst
                        THEN (IF i.lastTimeUsed > ident[best].lastTimeUsed THEN id ELSE best)
                        ELSE (IF i.lastTimeUsed < ident[best].lastTimeUsed THEN id ELSE best)
         IN ScanLoop(Tail(ks), nb)

\* ------------------------------------------------------------------ the map
\* The part of the state the mutators and the sync act on, threaded through the
\* calls one handler makes.
World == [ident |-> ident, keys |-> keys, store |-> store, sync |-> sync]

\* _add(identity): {...identity, ...this._identities[identity.id]}. A live local
\* record has every field, so each of its fields wins; null and undefined spread
\* to nothing, so over a tombstone or a missing key the loaded record stands.
_addLoadedWins(identity, local) == identity

_add(identity, local) ==
    IF local.st = "live" THEN local ELSE identity

\* this._identities[id] = added: a new key goes last, an old key keeps its place
PutKey(w, id, r) ==
    [w EXCEPT !.ident[id] = r,
              !.keys = IF w.ident[id].st = "absent" THEN Append(w.keys, id) ELSE w.keys]

\* _load(fragment, {unlock}): the loop over _iterIdentities(identities), which skips
\* the entries that are not records; the fragment's entries come in id order.
RECURSIVE LoadFrom(_, _, _, _)
LoadFrom(w, frag, id, unlock) ==
    IF id > MaxIds THEN w
    ELSE IF frag[id].st # "live" THEN LoadFrom(w, frag, id + 1, unlock)
    ELSE LET identity == IF unlock THEN [frag[id] EXCEPT !.locked = 0] ELSE frag[id]
         IN LoadFrom(PutKey(w, id, _add(identity, w.ident[id])), frag, id + 1, unlock)

_load(w, frag, unlock) == LoadFrom(w, frag, 1, unlock)

\* the filter/forEach at the end of _syncStoreForce: delete every null entry
RECURSIVE DropTombKeys(_, _)
DropTombKeys(ks, idt) ==
    IF ks = <<>> THEN <<>>
    ELSE IF idt[Head(ks)].st = "tomb" THEN DropTombKeys(Tail(ks), idt)
    ELSE <<Head(ks)>> \o DropTombKeys(Tail(ks), idt)

KeepNullIdentities(w) == w

DeleteNullIdentities(w) ==
    [w EXCEPT !.ident = [id \in Ids |-> IF w.ident[id].st = "tomb" THEN Absent ELSE w.ident[id]],
              !.keys = DropTombKeys(w.keys, w.ident)]

\* logger.push({[name]: {identities}}): the store merge-writes the fragment it is
\* sent: a record replaces the stored one, a null deletes it.
StorePush(st, idt) ==
    [id \in Ids |-> IF idt[id].st = "live" THEN idt[id]
                    ELSE IF idt[id].st = "tomb" THEN Absent
                    ELSE st[id]]

\* _syncStoreForce, up to its first await. Not stored: nothing is awaited and the
\* null entries are deleted at once. Stored: the pull or push is sent; `delivered`
\* says whether the store gets a push (a push that is lost can only fail).
\* sync.window is what is left, in seconds, of the dedup window this run opens.
\* sync.carried is what the request under way says to delete: the ids whose entry
\* was null when it was sent.
\* sync.waiter follows the call of destroy: "queued" while its call is the queued
\* one, "running" while the run it awaits is under way; sync.down is "done" once
\* destroy has returned.
SyncStartPurgesAtOnce(w, delivered) ==
    LET win == opt.o.minIntervalBetweenStoreUpdate
        v == DeleteNullIdentities(w)
    IN [v EXCEPT !.sync.phase = IF ~opt.stored THEN "idle"
                                ELSE IF delivered \/ w.keys = <<>> THEN "sent" ELSE "lost",
                 !.sync.queued = FALSE, !.sync.window = win,
                 !.sync.carried = {id \in Ids : w.ident[id].st = "tomb"},
                 !.store = IF opt.stored /\ delivered /\ w.keys # <<>>
                           THEN StorePush(w.store, w.ident) ELSE w.store]

SyncStart(w, delivered) ==
    LET win == opt.o.minIntervalBetweenStoreUpdate
    IN IF ~opt.stored
       THEN [DeleteNullIdentities(w) EXCEPT !.sync.phase = "idle", !.sync.queued = FALSE,
                                            !.sync.window = win, !.sync.waiter = "no",
                                            !.sync.down = IF w.sync.waiter = "queued" THEN "done"
                                                          ELSE w.sync.down]
       ELSE [w EXCEPT !.sync.phase = IF delivered \/ w.keys = <<>> THEN "sent" ELSE "lost",
                      !.sync.queued = FALSE, !.sync.window = win,
                      !.sync.carried = {id \in Ids : w.ident[id].st = "tomb"},
                      !.sync.waiter = IF w.sync.waiter = "queued" THEN "running" ELSE w.sync.waiter,
                      !.store = IF delivered /\ w.keys # <<>> THEN StorePush(w.store, w.ident)
                                ELSE w.store]

\* the run of the wrapper is over: a destroy that awaited it returns
SyncEnd(w) ==
    [w EXCEPT !.sync.phase = "idle", !.sync.carried = {},
              !.sync.waiter = IF w.sync.waiter = "running" THEN "no" ELSE w.sync.waiter,
              !.sync.down = IF w.sync.waiter = "running" THEN "done" ELSE w.sync.down]

\* a dedup wrapper as dedup() returns it: nothing running, nothing queued, no window
NewWrapper == [phase |-> "idle", queued |-> FALSE, window |-> 0, waiter |-> "no", carried |-> {}]

\* _load, lines 37-44: the options of the loaded fragment replace this._options, and
\* when minIntervalBetweenStoreUpdate differs from the one before, a new wrapper
\* replaces this._syncStoreForce. The wrapper before it is no longer called, but it
\* is still there: its window and its queued call are kept in sync.orphan.
LoadOptions == [opt EXCEPT !.o.minIntervalBetweenStoreUpdate = opt.atStore]

ReplaceWrapper(w) ==
    IF opt.atStore = opt.o.minIntervalBetweenStoreUpdate THEN w
    ELSE [w EXCEPT !.sync = [phase |-> "idle", queued |-> FALSE, window |-> 0, waiter |-> "no",
                             carried |-> {},
                             orphan |-> [phase |-> "idle", queued |-> w.sync.queued,
                                         window |-> w.sync.window, waiter |-> w.sync.waiter,
                                         carried |-> {}],
                             down |-> w.sync.down]]

\* the queued call of the wrapper that was replaced runs the same body
OrphanStart(w, delivered) ==
    [w EXCEPT !.sync.orphan.phase = IF delivered \/ w.keys = <<>> THEN "sent" ELSE "lost",
              !.sync.orphan.queued = FALSE,
              !.sync.orphan.carried = {id \in Ids : w.ident[id].st = "tomb"},
              !.sync.orphan.waiter = IF w.sync.orphan.waiter = "queued" THEN "running"
                                     ELSE w.sync.orphan.waiter,
              !.store = IF delivered /\ w.keys # <<>> THEN StorePush(w.store, w.ident)
                        ELSE w.store]

OrphanEnd(w) ==
    [w EXCEPT !.sync.orphan.phase = "idle", !.sync.orphan.carried = {},
              !.sync.orphan.waiter = IF w.sync.orphan.waiter = "running" THEN "no"
                                     ELSE w.sync.orphan.waiter,
              !.sync.down = IF w.sync.orphan.waiter = "running" THEN "done" ELSE w.sync.down]

\* this._syncStoreForce(): the dedup {within, queue: 1} wrapper. A call runs the
\* body when none is running and the window of the last run is over; otherwise it
\* is queued behind it, and one queued call stands for all.
SyncIsFree(s) == s.phase = "idle" /\ s.window = 0

_syncStoreForce(w, delivered) ==
    IF SyncIsFree(w.sync) THEN SyncStart(w, delivered)
    ELSE [w EXCEPT !.sync.queued = TRUE]

\* _syncStore(): the same call, its rejection swallowed
_syncStoreNever(w, delivered) == w

_syncStore(w, delivered) == _syncStoreForce(w, delivered)

\* ------------------------------------------------------------------ mutators
\* _find(one): `one` is an id string (bySnap = FALSE) or a record snapshot. An id
\* finds the map's entry, which is falsy for a tombstone or a missing key; a
\* snapshot falls back to a detached copy of itself, {...one}, which is truthy.
InMap(w, id) == w.ident[id].st = "live"
_find(w, id, bySnap) == InMap(w, id) \/ bySnap

\* lock(logger, one): identity.locked = new Date()
lock(w, id, bySnap) ==
    IF InMap(w, id) THEN [w EXCEPT !.ident[id].locked = now] ELSE w

\* touch as it would be if using a record also cleared its deprecation counter
touchClearsDeprecated(w, id, bySnap, d) ==
    IF ~_find(w, id, bySnap) THEN w
    ELSE IF InMap(w, id)
         THEN _syncStore([w EXCEPT !.ident[id].lastTimeUsed = now,
                                   !.ident[id].deprecated = 0], d)
         ELSE _syncStore(w, d)

\* touch(_, one): identity.lastTimeUsed = new Date(); this._syncStore()
touch(w, id, bySnap, d) ==
    IF ~_find(w, id, bySnap) THEN w
    ELSE _syncStore(IF InMap(w, id) THEN [w EXCEPT !.ident[id].lastTimeUsed = now] ELSE w, d)

unlockAlwaysTouches(w, id, bySnap, snapLocked, d) ==
    IF ~_find(w, id, bySnap) THEN w
    ELSE IF InMap(w, id) THEN touch([w EXCEPT !.ident[id].locked = 0], id, FALSE, d)
    ELSE touch(w, id, FALSE, d)

\* unlock(logger, one): only a set lock is cleared, and then touch(logger, id) with
\* the id string. snapLocked is the locked field of a detached snapshot.
unlock(w, id, bySnap, snapLocked, d) ==
    IF ~_find(w, id, bySnap) THEN w
    ELSE IF InMap(w, id)
         THEN (IF w.ident[id].locked # 0
               THEN touch([w EXCEPT !.ident[id].locked = 0], id, FALSE, d)
               ELSE w)
         ELSE (IF snapLocked THEN touch(w, id, FALSE, d) ELSE w)

\* update(_, one, data)
update(w, id, bySnap, data, d) ==
    IF ~_find(w, id, bySnap) THEN w
    ELSE _syncStore(IF InMap(w, id) THEN [w EXCEPT !.ident[id].data = data] ELSE w, d)

\* renew(logger, one): snapDep says whether a detached snapshot has deprecated > 0
renew(w, id, bySnap, snapDep, d) ==
    IF ~_find(w, id, bySnap) THEN w
    ELSE IF InMap(w, id)
         THEN (IF w.ident[id].deprecated > 0
               THEN _syncStore([w EXCEPT !.ident[id].deprecated = 0], d)
               ELSE w)
         ELSE (IF snapDep THEN _syncStore(w, d) ELSE w)

\* remove(logger, one): this._identities[id] = null, also for a detached snapshot
remove(w, id, bySnap, d) ==
    IF ~_find(w, id, bySnap) THEN w
    ELSE _syncStore(PutKey(w, id, Tomb), d)

\* the test of deprecate that hands the record to remove
ReachedThresholdGt(n) ==
    opt.o.maxDeprecationsBeforeRemoval >= 0 /\ n > opt.o.maxDeprecationsBeforeRemoval

ReachedThreshold(n) ==
    opt.o.maxDeprecationsBeforeRemoval >= 0 /\ n >= opt.o.maxDeprecationsBeforeRemoval

\* deprecate(logger, one): count, remove(logger, id) at the threshold, then
\* unlock(logger, id) and this._syncStore(). The three calls take the id string, so
\* for a detached snapshot only the last one does anything.
deprecate(w, id, bySnap, d) ==
    IF ~_find(w, id, bySnap) THEN w
    ELSE IF ~InMap(w, id) THEN _syncStore(w, d)
    ELSE LET n == w.ident[id].deprecated + 1
             w1 == [w EXCEPT !.ident[id].deprecated = n]
             w2 == IF ReachedThreshold(n) THEN remove(w1, id, FALSE, d) ELSE w1
             w3 == unlock(w2, id, FALSE, FALSE, d)
         IN _syncStore(w3, d)

\* ------------------------------------------------------------------ creator
Off == [phase |-> "off", trial |-> 0, error |-> "", wake |-> 0, out |-> ""]   \* wake: seconds of sleep left
Ret(c0, o) == [c0 EXCEPT !.phase = "ret", !.out = o, !.wake = 0]

\* dedup {key: null} around _createIdentity: the run a call is answered by. With a
\* run in flight every call gets that run's promise; otherwise the call starts one.
StarterAlwaysOwn(c) == c

Starter(c) == IF slot = NoCaller THEN c ELSE slot

\* the head of one loop iteration of _createIdentity: trial++, then the creation
\* callback is awaited when there is one
RECURSIVE Trial(_, _)

\* lines 158-203: move on to the next trial, or apply the exhaustion policy
AfterTrialPollFirst(c0, w) ==
    IF opt.o.maxRetryCreateIdentities >= 0 /\ c0.trial <= opt.o.maxRetryCreateIdentities /\ opt.hasFn
    THEN Trial(c0, w)
    ELSE IF w.keys # <<>> /\ opt.o.pollingIntervalWaitingForAvailable > 0
    THEN [c0 EXCEPT !.phase = "sleep", !.wake = opt.o.pollingIntervalWaitingForAvailable]
    ELSE IF opt.o.allowNoIdentity THEN Ret(c0, "false")
    ELSE IF w.keys = <<>> /\ opt.stored /\ opt.o.waitForStoreUpdateWhenNoIdentity
    THEN [c0 EXCEPT !.phase = "wait"]
    ELSE Ret(c0, "exhausted")

AfterTrialOneLess(c0, w) ==
    IF opt.o.maxRetryCreateIdentities >= 0 /\ c0.trial < opt.o.maxRetryCreateIdentities /\ opt.hasFn
    THEN Trial(c0, w)
    ELSE IF opt.o.allowNoIdentity THEN Ret(c0, "false")
    ELSE IF w.keys # <<>> /\ opt.o.pollingIntervalWaitingForAvailable > 0
    THEN [c0 EXCEPT !.phase = "sleep", !.wake = opt.o.pollingIntervalWaitingForAvailable]
    ELSE IF w.keys = <<>> /\ opt.stored /\ opt.o.waitForStoreUpdateWhenNoIdentity
    THEN [c0 EXCEPT !.phase = "wait"]
    ELSE Ret(c0, "exhausted")

AfterTrial(c0, w) ==
    IF opt.o.maxRetryCreateIdentities >= 0 /\ c0.trial <= opt.o.maxRetryCreateIdentities /\ opt.hasFn
    THEN Trial(c0, w)
    ELSE IF opt.o.allowNoIdentity THEN Ret(c0, "false")
    ELSE IF w.keys # <<>> /\ opt.o.pollingIntervalWaitingForAvailable > 0
    THEN [c0 EXCEPT !.phase = "sleep", !.wake = opt.o.pollingIntervalWaitingForAvailable]
    ELSE IF w.keys = <<>> /\ opt.stored /\ opt.o.waitForStoreUpdateWhenNoIdentity
    THEN [c0 EXCEPT !.phase = "wait"]
    ELSE Ret(c0, "exhausted")

Trial(c0, w) ==
    LET c1 == [c0 EXCEPT !.trial = c0.trial + 1, !.error = ""]
    IN IF opt.hasFn THEN [c1 EXCEPT !.phase = "fn"] ELSE AfterTrial(c1, w)

\* lines 133-152: what a caught error leads to before the classifier is asked.
\* An Error named JobRuntime is retryable by itself; any other error goes to the
\* classifier if there is one and is thrown if there is none.
OnErrorRetryAll(c0, kind, w) == AfterTrial([c0 EXCEPT !.error = kind], w)

OnError(c0, kind, w) ==
    LET c1 == [c0 EXCEPT !.error = kind]
    IN IF kind = "JobRuntime" THEN AfterTrial(c1, w)
       ELSE IF opt.hasErr THEN [c1 EXCEPT !.phase = "cls"]
       ELSE Ret(c1, "error")

\* lines 140-152: the classifier's answer. A message makes the error retryable; no
\* message, or a classifier that throws, leaves it fatal.
OnClassifiedAnyAnswer(c0, answer, w) == AfterTrial(c0, w)

OnClassified(c0, answer, w) ==
    IF answer = "message" THEN AfterTrial(c0, w) ELSE Ret(c0, "error")

\* the record _add builds from a valid payload {data}: the defaults of line 66
Created == [st |-> "live", data |-> 1, deprecated |-> 0, lastTimeUsed |-> now, locked |-> 0]

\* ------------------------------------------------------------------ actions
\* one more call of a consumer, within the bound; after destroy the pool is no
\* longer used
Call ==
    /\ calls > 0
    /\ sync.down = "no"
    /\ calls' = calls - 1

Apply(w) ==
    /\ ident' = w.ident
    /\ keys' = w.keys
    /\ store' = w.store
    /\ sync' = w.sync

\* history: who tombstoned each id, how the last flush ended, the ids that were
\* tombstones when a flush failed, and those of them the next good flush deleted; whether
\* unlock has been called on a record that was not locked
Mark(id, by) == [hist EXCEPT !.removedBy[id] = by]
MarkIf(cond, id, by) == IF cond THEN Mark(id, by) ELSE hist

\* history: hist.lease[id] is the time of the latest lock of id by get() or lock(),
\* and 0 when there is none or unlock or deprecate has been called on id since
LeaseIf(h, cond, id, at) == IF cond THEN [h EXCEPT !.lease[id] = at] ELSE h
LeaseOnPass(lk) ==
    LET best == ScanLoop(keys, 0)
    IN LeaseIf(hist, best # 0 /\ lk, IF best # 0 THEN best ELSE 1, now)

\* One pass of the while loop of get(): the scan, then either the touch/lock/return
\* of the candidate or the call of this._createIdentity.
Pass(c, lk, d) ==
    LET best == ScanLoop(keys, 0)
    IN IF best # 0
       THEN LET w1 == touch(World, best, TRUE, d)
                w2 == IF lk THEN lock(w1, best, TRUE) ELSE w1
            IN /\ Apply(w2)
               /\ pc' = [pc EXCEPT ![c] = "done"]
               /\ wantLock' = [wantLock EXCEPT ![c] = FALSE]
               /\ res' = [res EXCEPT ![c] = [kind |-> "rec", id |-> best]]
               /\ UNCHANGED <<waitOn, cr, slot>>
       ELSE LET s == Starter(c)
            IN /\ pc' = [pc EXCEPT ![c] = "await"]
               /\ wantLock' = [wantLock EXCEPT ![c] = lk]
               /\ waitOn' = [waitOn EXCEPT ![c] = s]
               /\ slot' = s
               /\ cr' = IF s = c THEN [cr EXCEPT ![c] = Trial(Off, World)] ELSE cr
               /\ UNCHANGED <<ident, keys, store, sync, res>>

\* get(logger, {lock}) is called
Get(c, lk, d) ==
    /\ pc[c] = "idle"
    /\ Call
    /\ Pass(c, lk, d)
    /\ hist' = LeaseOnPass(lk)
    /\ UNCHANGED <<opt, now, nextId, got>>

\* line 97 resumes: created is the run's result, or the run's error is rethrown
Resume(c, d) ==
    /\ pc[c] = "ready"
    /\ got' = [got EXCEPT ![c] = ""]
    /\ hist' = IF got[c] = "true" THEN LeaseOnPass(wantLock[c]) ELSE hist
    /\ UNCHANGED <<opt, now, nextId, calls>>
    /\ IF got[c] = "true" THEN Pass(c, wantLock[c], d)
       ELSE /\ pc' = [pc EXCEPT ![c] = "done"]
            /\ wantLock' = [wantLock EXCEPT ![c] = FALSE]
            /\ res' = [res EXCEPT ![c] = [kind |-> IF got[c] = "false" THEN "empty"
                                                   ELSE IF got[c] = "error" THEN "error"
                                                   ELSE "fail",
                                          id |-> 0]]
            /\ UNCHANGED <<ident, keys, store, sync, waitOn, cr, slot>>

\* the caller is done with the result and may call get() again
Again(c) ==
    /\ pc[c] = "done"
    /\ pc' = [pc EXCEPT ![c] = "idle"]
    /\ res' = [res EXCEPT ![c] = [kind |-> "none", id |-> 0]]
    /\ UNCHANGED <<opt, now, keys, ident, nextId, store, wantLock, waitOn, got, cr, slot, sync, hist, calls>>

\* the creation callback settles: a valid payload is added and the run reports
\* true; nothing, or a payload that is no plain object with data, counts as no
\* record; a thrown error is classified. A thrown falsy value (throw null) fails
\* the test `if (error)` and so counts as no record as well.
FnReturn(c, outcome) ==
    /\ cr[c].phase = "fn"
    /\ IF outcome = "record"
       THEN /\ nextId <= MaxIds
            /\ Apply(PutKey(World, nextId, _add(Created, ident[nextId])))
            /\ nextId' = nextId + 1
            /\ cr' = [cr EXCEPT ![c] = Ret(cr[c], "true")]
       ELSE /\ cr' = [cr EXCEPT ![c] =
                        IF outcome \in {"nothing", "invalid", "Falsy"} THEN AfterTrial(cr[c], World)
                        ELSE OnError(cr[c], outcome, World)]
            /\ UNCHANGED <<ident, keys, store, sync, nextId>>
    /\ UNCHANGED <<opt, now, pc, wantLock, waitOn, got, res, slot, hist, calls>>

\* the error-classifier callback settles
ClsReturn(c, answer) ==
    /\ cr[c].phase = "cls"
    /\ cr' = [cr EXCEPT ![c] = OnClassified(cr[c], answer, World)]
    /\ UNCHANGED <<opt, now, keys, ident, nextId, store, pc, wantLock, waitOn, got, res, slot, sync, hist, calls>>

\* logger.sleep(pollingIntervalWaitingForAvailable) is over: return true
SleepDone(c) ==
    /\ cr[c].phase = "sleep"
    /\ cr[c].wake = 0
    /\ cr' = [cr EXCEPT ![c] = Ret(cr[c], "true")]
    /\ UNCHANGED <<opt, now, keys, ident, nextId, store, pc, wantLock, waitOn, got, res, slot, sync, hist, calls>>

\* logger.pull({waitUntil}) returns once the store holds an identity for this
\* name; the fragment is loaded and the run returns true
StoreWaitDone(c) ==
    /\ cr[c].phase = "wait"
    /\ \E id \in Ids : store[id].st = "live"
    /\ Apply(ReplaceWrapper(_load(World, store, FALSE)))
    /\ opt' = LoadOptions
    /\ cr' = [cr EXCEPT ![c] = Ret(cr[c], "true")]
    /\ UNCHANGED <<now, nextId, pc, wantLock, waitOn, got, res, slot, hist, calls>>

\* the run's promise settles: every call that awaits it gets the same result, and
\* the dedup slot is free again
Settle(c) ==
    /\ cr[c].phase = "ret"
    /\ pc' = [x \in Callers |-> IF pc[x] = "await" /\ waitOn[x] = c THEN "ready" ELSE pc[x]]
    /\ got' = [x \in Callers |-> IF pc[x] = "await" /\ waitOn[x] = c THEN cr[c].out ELSE got[x]]
    /\ waitOn' = [x \in Callers |-> IF pc[x] = "await" /\ waitOn[x] = c THEN NoCaller ELSE waitOn[x]]
    /\ slot' = IF slot = c THEN NoCaller ELSE slot
    /\ cr' = [cr EXCEPT ![c] = Off]
    /\ UNCHANGED <<opt, now, keys, ident, nextId, store, wantLock, res, sync, hist, calls>>

\* ids a consumer can name: every id handed out so far
Known == 1..(nextId - 1)

KeepRest == UNCHANGED <<opt, now, nextId, pc, wantLock, waitOn, got, res, cr, slot>>


\* a consumer calls lock(logger, one)
Lock(id, bySnap) ==
    /\ id \in Known
    /\ Call
    /\ Apply(lock(World, id, bySnap))
    /\ hist' = LeaseIf(hist, Live(id), id, now)
    /\ KeepRest

\* a consumer calls unlock(logger, one)
Unlock(id, bySnap, snapLocked, d) ==
    /\ id \in Known
    /\ Call
    /\ Apply(unlock(World, id, bySnap, snapLocked, d))
    /\ hist' = LeaseIf([hist EXCEPT !.unlockNoop = @ \/ (Live(id) /\ ident[id].locked = 0)],
                        Live(id), id, 0)
    /\ KeepRest

\* a consumer calls touch(logger, one)
Touch(id, bySnap, d) ==
    /\ id \in Known
    /\ Call
    /\ Apply(touch(World, id, bySnap, d))
    /\ UNCHANGED hist
    /\ KeepRest

\* a consumer calls update(logger, one, data)
Update(id, bySnap, data, d) ==
    /\ id \in Known
    /\ Call
    /\ Apply(update(World, id, bySnap, data, d))
    /\ UNCHANGED hist
    /\ KeepRest

\* a consumer calls renew(logger, one)
Renew(id, bySnap, snapDep, d) ==
    /\ id \in Known
    /\ Call
    /\ Apply(renew(World, id, bySnap, snapDep, d))
    /\ UNCHANGED hist
    /\ KeepRest

\* a consumer calls deprecate(logger, one)
Deprecate(id, bySnap, d) ==
    /\ id \in Known
    /\ Call
    /\ ident[id].deprecated <= MaxDeprecated
    /\ LET w == deprecate(World, id, bySnap, d)
       IN /\ Apply(w)
          /\ hist' = LeaseIf(MarkIf(Live(id) /\ w.ident[id].st # "live", id, "deprecate"),
                              Live(id), id, 0)
    /\ KeepRest

\* a consumer calls remove(logger, one)
Remove(id, bySnap, d) ==
    /\ id \in Known
    /\ Call
    /\ Apply(remove(World, id, bySnap, d))
    /\ hist' = MarkIf(Live(id), id, "remove")
    /\ KeepRest

\* the store round trip of the running flush succeeds: the response is loaded,
\* then the null entries are deleted
SyncOk ==
    /\ sync.phase = "sent"
    /\ Apply(ReplaceWrapper(SyncEnd(DeleteNullIdentities(_load(World, store, FALSE)))))
    /\ opt' = LoadOptions
    /\ hist' = [hist EXCEPT !.flush = "ok", !.tombAtFail = {},
                            !.purged = {id \in hist.tombAtFail : ident'[id].st = "absent"}]
    /\ UNCHANGED <<calls, now, nextId, pc, wantLock, waitOn, got, res, cr, slot>>

SyncFailPurges ==
    /\ sync.phase \in {"sent", "lost"}
    /\ Apply(SyncEnd(DeleteNullIdentities(World)))
    /\ hist' = [hist EXCEPT !.flush = "fail",
                            !.tombAtFail = {id \in Ids : ident[id].st = "tomb"}]
    /\ UNCHANGED calls
    /\ KeepRest

\* the pull or push raises: the catch block keeps the null entries
SyncFail ==
    /\ sync.phase \in {"sent", "lost"}
    /\ Apply(SyncEnd(World))
    /\ hist' = [hist EXCEPT !.flush = "fail",
                            !.tombAtFail = {id \in Ids : ident[id].st = "tomb"}]
    /\ UNCHANGED calls
    /\ KeepRest

\* the queued call of the dedup wrapper runs once the run before it is over and
\* the window has passed
SyncQueued(d) ==
    /\ sync.queued
    /\ SyncIsFree(sync)
    /\ Apply(SyncStart(World, d))
    /\ UNCHANGED hist
    /\ UNCHANGED calls
    /\ KeepRest

\* the queued call of a wrapper that _load has replaced runs once its own window
\* has passed, whatever the wrapper in use is doing
OrphanQueued(d) ==
    /\ sync.orphan.queued
    /\ SyncIsFree(sync.orphan)
    /\ Apply(OrphanStart(World, d))
    /\ UNCHANGED <<hist, calls>>
    /\ KeepRest

\* the round trip of that run succeeds
OrphanOk ==
    /\ sync.orphan.phase = "sent"
    /\ Apply(ReplaceWrapper(OrphanEnd(DeleteNullIdentities(_load(World, store, FALSE)))))
    /\ opt' = LoadOptions
    /\ hist' = [hist EXCEPT !.flush = "ok", !.tombAtFail = {},
                            !.purged = {id \in hist.tombAtFail : ident'[id].st = "absent"}]
    /\ UNCHANGED <<calls, now, nextId, pc, wantLock, waitOn, got, res, cr, slot>>

\* the round trip of that run fails
OrphanFail ==
    /\ sync.orphan.phase \in {"sent", "lost"}
    /\ Apply(OrphanEnd(World))
    /\ hist' = [hist EXCEPT !.flush = "fail",
                            !.tombAtFail = {id \in Ids : ident[id].st = "tomb"}]
    /\ UNCHANGED calls
    /\ KeepRest

\* destroy(identities): await identities._syncStoreForce(), the wrapper in use
Destroy(d) ==
    /\ Call
    /\ Apply(IF SyncIsFree(sync)
             THEN (IF opt.stored
                   THEN [SyncStart(World, d) EXCEPT !.sync.waiter = "running", !.sync.down = "called"]
                   ELSE [SyncStart(World, d) EXCEPT !.sync.down = "done"])
             ELSE [World EXCEPT !.sync.queued = TRUE, !.sync.waiter = "queued", !.sync.down = "called"])
    /\ UNCHANGED hist
    /\ KeepRest

\* the document of the store gets another minIntervalBetweenStoreUpdate for this name
Reconfigure(interval) ==
    /\ opt.stored
    /\ opt.atStore = opt.o.minIntervalBetweenStoreUpdate
    /\ interval # opt.atStore
    /\ sync.orphan = NewWrapper
    /\ opt' = [opt EXCEPT !.atStore = interval]
    /\ UNCHANGED <<now, keys, ident, nextId, store, pc, wantLock, waitOn, got, res, cr, slot, sync, hist, calls>>

\* another pool instance of the same name pushes a record of its own to the store
ExternalAdd ==
    /\ opt.stored
    /\ nextId <= MaxIds
    /\ store' = [store EXCEPT ![nextId] = Created]
    /\ nextId' = nextId + 1
    /\ UNCHANGED <<opt, now, keys, ident, pc, wantLock, waitOn, got, res, cr, slot, sync, hist, calls>>

\* a second passes: the clock advances and the running timers (the sleep of a
\* creator run, the dedup windows of the sync) have one second less to go
Tick ==
    /\ now < MaxTime
    /\ now' = now + 1
    /\ cr' = [c \in Callers |-> [cr[c] EXCEPT !.wake = Max(0, cr[c].wake - 1)]]
    /\ sync' = [sync EXCEPT !.window = Max(0, sync.window - 1),
                            !.orphan.window = Max(0, sync.orphan.window - 1)]
    /\ UNCHANGED <<opt, keys, ident, nextId, store, pc, wantLock, waitOn, got, res, slot, hist, calls>>

FnOutcomes == {"record", "nothing", "invalid", "Falsy", "JobRuntime", "Other"}
ErrorKinds == {"JobRuntime", "Other"}
ClsAnswers == {"message", "nothing", "throws"}
DataValues == {1, 2}

\* ------------------------------------------------------------------ Init
EmptyMap == [id \in Ids |-> Absent]
EmptyWorld ==
    [ident |-> EmptyMap, keys |-> <<>>, store |-> EmptyMap,
     sync |-> [phase |-> "idle", queued |-> FALSE, window |-> 0, waiter |-> "no",
               carried |-> {}, orphan |-> NewWrapper, down |-> "no"]]

Stored(lu, dp) == [st |-> "live", data |-> 1, deprecated |-> dp, lastTimeUsed |-> lu, locked |-> 0]

\* the state after create(): the constructor, then _init, which for a stored pool
\* loads the store's fragment with {unlock: true}
InitWith(o, st, budget) ==
    /\ opt = o
    /\ now = 1
    /\ store = st
    /\ LET w == IF o.stored THEN _load([EmptyWorld EXCEPT !.store = st], st, TRUE) ELSE EmptyWorld
       IN /\ ident = w.ident
          /\ keys = w.keys
          /\ sync = w.sync
    /\ nextId = 1 + Cardinality({id \in Ids : st[id].st = "live"})
    /\ pc = [c \in Callers |-> "idle"]
    /\ wantLock = [c \in Callers |-> FALSE]
    /\ waitOn = [c \in Callers |-> NoCaller]
    /\ got = [c \in Callers |-> ""]
    /\ res = [c \in Callers |-> [kind |-> "none", id |-> 0]]
    /\ cr = [c \in Callers |-> Off]
    /\ slot = NoCaller
    /\ calls = budget
    /\ hist = [removedBy |-> [id \in Ids |-> ""], flush |-> "none", tombAtFail |-> {}, purged |-> {},
                unlockNoop |-> FALSE, lease |-> [id \in Ids |-> 0]]

MkOpt(stored, hasFn, hasErr, options) ==
    [stored |-> stored, hasFn |-> hasFn, hasErr |-> hasErr, o |-> _makeOptions(options),
     atStore |-> _makeOptions(options).minIntervalBetweenStoreUpdate]

\* ------------------------------------------------------------------ Spec
\* Selection and leases in a pool that is not stored: it starts empty, its records
\* come from the creation callback, and a flush only deletes the null entries.
Short == [lockExpire |-> 1, minIntervalBetweenStoreUpdate |-> 0]

Init ==
    \E recent \in BOOLEAN, minUse \in {0, 1} :
        InitWith(MkOpt(FALSE, TRUE, FALSE,
                       Short @@ [recentlyUsedFirst |-> recent, minIntervalBetweenUse |-> minUse]),
                 EmptyMap, MaxCalls)

Next ==
    \/ \E c \in Callers, lk \in BOOLEAN : Get(c, lk, TRUE)
    \/ \E c \in Callers : Resume(c, TRUE)
    \/ \E c \in Callers : Again(c)
    \/ \E c \in Callers, outcome \in {"record", "nothing"} : FnReturn(c, outcome)
    \/ \E c \in Callers : SleepDone(c)
    \/ \E c \in Callers : Settle(c)
    \/ \E id \in Ids : Lock(id, FALSE)
    \/ \E id \in Ids : Unlock(id, FALSE, FALSE, TRUE)
    \/ \E id \in Ids : Touch(id, FALSE, TRUE)
    \/ \E id \in Ids : Remove(id, FALSE, TRUE)
    \/ Tick

Spec == Init /\ [][Next]_vars

\* ------------------------------------------------------------------ SpecCreate
\* The creator under every combination of its options, for pools that start
\* empty: with and without the two callbacks, stored or not.
RetryBudgets == {-1, 0, 2}
Backings == {<<FALSE, FALSE>>, <<TRUE, FALSE>>, <<TRUE, TRUE>>}    \* stored, waitForStoreUpdateWhenNoIdentity
Callbacks == {<<FALSE, FALSE>>, <<TRUE, FALSE>>, <<TRUE, TRUE>>}   \* createIdentityFn, createIdentityError

InitCreate ==
    \E back \in Backings, cb \in Callbacks, retry \in RetryBudgets,
       allowNo \in BOOLEAN, polling \in {0, 1} :
        InitWith(MkOpt(back[1], cb[1], cb[2],
                       Short @@ [maxRetryCreateIdentities |-> retry, allowNoIdentity |-> allowNo,
                                 pollingIntervalWaitingForAvailable |-> polling,
                                 waitForStoreUpdateWhenNoIdentity |-> back[2]]),
                 EmptyMap, MaxCreateCalls)

NextCreate ==
    \/ \E c \in Callers, lk \in BOOLEAN : Get(c, lk, TRUE)
    \/ \E c \in Callers : Resume(c, TRUE)
    \/ \E c \in Callers, outcome \in FnOutcomes : FnReturn(c, outcome)
    \/ \E c \in Callers, answer \in ClsAnswers : ClsReturn(c, answer)
    \/ \E c \in Callers : SleepDone(c)
    \/ \E c \in Callers : StoreWaitDone(c)
    \/ \E c \in Callers : Settle(c)
    \/ SyncOk
    \/ ExternalAdd
    \/ Tick

SpecCreate == InitCreate /\ [][NextCreate]_vars

\* ------------------------------------------------------------------ SpecStore
\* A stored pool that starts with two records and has no creation callback:
\* deprecation, removal and tombstones against the store round trips.
Thresholds == {-1, 0, 1, 2}

TwoRecords(dp) ==
    [id \in Ids |-> IF id = 1 THEN Stored(0, dp) ELSE IF id = 2 THEN Stored(1, 0) ELSE Absent]

InitStore ==
    \E maxDep \in Thresholds, window \in {0, 1}, dp \in {0, 1} :
        InitWith(MkOpt(TRUE, FALSE, FALSE,
                       [lockExpire |-> 1, minIntervalBetweenStoreUpdate |-> window,
                        maxDeprecationsBeforeRemoval |-> maxDep]),
                 TwoRecords(dp), MaxStoreCalls)

NextStore ==
    \/ \E c \in Callers : Get(c, TRUE, TRUE)
    \/ \E c \in Callers : Resume(c, TRUE)
    \/ \E c \in Callers : SleepDone(c)
    \/ \E c \in Callers : Settle(c)
    \/ \E id \in Ids : Deprecate(id, FALSE, TRUE)
    \/ \E id \in Ids, d \in BOOLEAN : Remove(id, FALSE, d)
    \/ SyncOk
    \/ SyncFail
    \/ \E d \in BOOLEAN : SyncQueued(d)
    \/ Tick

SpecStore == InitStore /\ [][NextStore]_vars

\* ------------------------------------------------------------------ SpecPoll
\* A stored pool with one record and no creation callback: the callers lease the
\* record, the one that finds it leased polls, the holder may unlock it. No caller
\* calls get() twice.
OneRecord == [id \in Ids |-> IF id = 1 THEN Stored(0, 0) ELSE Absent]

InitPoll ==
    \E window \in {0, 1}, polling \in {1, 2} :
        InitWith(MkOpt(TRUE, FALSE, FALSE,
                       [lockExpire |-> 1, minIntervalBetweenStoreUpdate |-> window,
                        pollingIntervalWaitingForAvailable |-> polling]),
                 OneRecord, MaxPollCalls)

NextPoll ==
    \/ \E c \in Callers : Get(c, TRUE, TRUE)
    \/ \E c \in Callers : Resume(c, TRUE)
    \/ \E c \in Callers : SleepDone(c)
    \/ \E c \in Callers : Settle(c)
    \/ \E id \in Ids : Unlock(id, FALSE, FALSE, TRUE)
    \/ SyncOk
    \/ SyncFail
    \/ SyncQueued(TRUE)
    \/ Tick

\* the clock runs, a sleep that is over returns, a settled promise resumes the calls
\* that await it; what the consumers and the store do is left open
SpecPoll ==
    /\ InitPoll
    /\ [][NextPoll]_vars
    /\ WF_vars(Tick)
    /\ \A c \in Callers : WF_vars(SleepDone(c)) /\ WF_vars(Settle(c)) /\ WF_vars(Resume(c, TRUE))

\* ------------------------------------------------------------------ SpecMut
\* A stored pool with two records whose consumers only call the mutators, with an
\* id string or with a record snapshot, against the store round trips. An id that
\* was removed and purged is a stale reference.
InitMut ==
    \E window \in {0, 1}, dp \in {0, 1} :
        InitWith(MkOpt(TRUE, FALSE, FALSE,
                       [lockExpire |-> 1, minIntervalBetweenStoreUpdate |-> window,
                        maxDeprecationsBeforeRemoval |-> 2]),
                 TwoRecords(dp), MaxMutCalls)

NextMut ==
    \/ \E id \in Ids, bySnap \in BOOLEAN : Lock(id, bySnap)
    \/ \E id \in Ids, bySnap \in BOOLEAN, snapLocked \in BOOLEAN : Unlock(id, bySnap, snapLocked, TRUE)
    \/ \E id \in Ids, bySnap \in BOOLEAN : Touch(id, bySnap, TRUE)
    \/ \E id \in Ids, bySnap \in BOOLEAN : Update(id, bySnap, 2, TRUE)
    \/ \E id \in Ids, bySnap \in BOOLEAN, snapDep \in BOOLEAN : Renew(id, bySnap, snapDep, TRUE)
    \/ \E id \in Ids, bySnap \in BOOLEAN : Deprecate(id, bySnap, TRUE)
    \/ \E id \in Ids, bySnap \in BOOLEAN : Remove(id, bySnap, TRUE)
    \/ SyncOk
    \/ SyncFail
    \/ \E d \in BOOLEAN : SyncQueued(d)
    \/ Tick

SpecMut == InitMut /\ [][NextMut]_vars

\* ------------------------------------------------------------------ SpecSync
\* A stored pool with one record: mutators schedule flushes through the debounced
\* wrapper, the store's document may get another minIntervalBetweenStoreUpdate,
\* which the next reload picks up, and the pool is torn down with destroy.
Intervals == {1, 2}

InitSync ==
    \E window \in {0, 1} :
        InitWith(MkOpt(TRUE, FALSE, FALSE,
                       [lockExpire |-> 1, minIntervalBetweenStoreUpdate |-> window]),
                 OneRecord, MaxSyncCalls)

NextSync ==
    \/ \E id \in Ids : Touch(id, FALSE, TRUE)
    \/ \E id \in Ids : Update(id, FALSE, 2, TRUE)
    \/ \E d \in BOOLEAN : Destroy(d)
    \/ \E interval \in Intervals : Reconfigure(interval)
    \/ SyncOk
    \/ SyncFail
    \/ \E d \in BOOLEAN : SyncQueued(d)
    \/ OrphanOk
    \/ OrphanFail
    \/ \E d \in BOOLEAN : OrphanQueued(d)
    \/ Tick

SpecSync == InitSync /\ [][NextSync]_vars

\* ------------------------------------------------------------------ SpecLock
\* A stored pool with one record that consumers lock, unlock and touch, by id and
\* by snapshot, while flushes succeed and fail.
InitLock ==
    \E window \in {0, 1} :
        InitWith(MkOpt(TRUE, FALSE, FALSE,
                       [lockExpire |-> 1, minIntervalBetweenStoreUpdate |-> window]),
                 OneRecord, MaxLockCalls)

NextLock ==
    \/ \E id \in Ids, bySnap \in BOOLEAN : Lock(id, bySnap)
    \/ \E id \in Ids, bySnap \in BOOLEAN, snapLocked \in BOOLEAN : Unlock(id, bySnap, snapLocked, TRUE)
    \/ \E id \in Ids, bySnap \in BOOLEAN : Touch(id, bySnap, TRUE)
    \/ SyncOk
    \/ SyncFail
    \/ \E d \in BOOLEAN : SyncQueued(d)
    \/ Tick

SpecLock == InitLock /\ [][NextLock]_vars

\* ------------------------------------------------------------------ SpecFresh
\* A stored pool with one record and a creation callback: a call that finds the
\* record leased creates a second one, which the store has not seen yet, while
\* flushes are under way; records are removed.
InitFresh ==
    \E window \in {0, 1}, between \in {0, 1} :
        InitWith(MkOpt(TRUE, TRUE, FALSE,
                       [lockExpire |-> 1, minIntervalBetweenStoreUpdate |-> window,
                        minIntervalBetweenUse |-> between]),
                 OneRecord, MaxFreshCalls)

NextFresh ==
    \/ \E c \in Callers : Get(c, TRUE, TRUE)
    \/ \E c \in Callers : Resume(c, TRUE)
    \/ \E c \in Callers, outcome \in {"record", "nothing"} : FnReturn(c, outcome)
    \/ \E c \in Callers : SleepDone(c)
    \/ \E c \in Callers : Settle(c)
    \/ \E id \in Ids : Remove(id, FALSE, TRUE)
    \/ SyncOk
    \/ SyncFail
    \/ SyncQueued(TRUE)
    \/ Tick

SpecFresh == InitFresh /\ [][NextFresh]_vars

\* ------------------------------------------------------------------ SpecPush
\* A stored pool with one record and a store that answers every push: consumers
\* call the mutators by id, then stop; a round trip under way completes and a
\* queued flush runs when its window has passed.
InitPush ==
    \E window \in {0, 1} :
        InitWith(MkOpt(TRUE, FALSE, FALSE,
                       [lockExpire |-> 1, minIntervalBetweenStoreUpdate |-> window,
                        maxDeprecationsBeforeRemoval |-> 2]),
                 OneRecord, MaxPushCalls)

NextPush ==
    \/ \E id \in Ids : Lock(id, FALSE)
    \/ \E id \in Ids : Unlock(id, FALSE, FALSE, TRUE)
    \/ \E id \in Ids : Touch(id, FALSE, TRUE)
    \/ \E id \in Ids : Update(id, FALSE, 2, TRUE)
    \/ \E id \in Ids : Renew(id, FALSE, FALSE, TRUE)
    \/ \E id \in Ids : Deprecate(id, FALSE, TRUE)
    \/ \E id \in Ids : Remove(id, FALSE, TRUE)
    \/ SyncOk
    \/ SyncQueued(TRUE)
    \/ Tick

SpecPush ==
    /\ InitPush
    /\ [][NextPush]_vars
    /\ WF_vars(SyncOk)
    /\ WF_vars(SyncQueued(TRUE))
    /\ WF_vars(Tick)

\* ------------------------------------------------------------------ SpecLease
\* A stored pool with one record and a creation callback whose two consumers take
\* leases with get(), give them back with unlock or deprecate, and remove records,
\* while flushes reload the map.
InitLease ==
    InitWith(MkOpt(TRUE, TRUE, FALSE,
                   [lockExpire |-> 1, minIntervalBetweenStoreUpdate |-> 0,
                    maxDeprecationsBeforeRemoval |-> 2]),
             OneRecord, MaxLeaseCalls)

NextLease ==
    \/ \E c \in Callers, lk \in BOOLEAN : Get(c, lk, TRUE)
    \/ \E c \in Callers : Resume(c, TRUE)
    \/ \E c \in Callers, outcome \in {"record", "nothing"} : FnReturn(c, outcome)
    \/ \E c \in Callers : SleepDone(c)
    \/ \E c \in Callers : Settle(c)
    \/ \E id \in Ids : Unlock(id, FALSE, FALSE, TRUE)
    \/ \E id \in Ids : Deprecate(id, FALSE, TRUE)
    \/ \E id \in Ids : Remove(id, FALSE, TRUE)
    \/ SyncOk
    \/ SyncFail
    \/ SyncQueued(TRUE)
    \/ Tick

SpecLease == InitLease /\ [][NextLease]_vars

\* ------------------------------------------------------------------ claims
\* a get() call returns a record in this step
Returns(c) == res[c].kind # "rec" /\ res'[c].kind = "rec"

\* C1: the record a get() call returns was, in the state its scan saw, a live
\* record that was neither locked less than lockExpire seconds ago nor used less
\* than minIntervalBetweenUse seconds ago; a tombstone is never returned.
C1_ReturnedWasAvailable ==
    [][\A c \in Callers :
          Returns(c) =>
              LET r == ident[res'[c].id]
              IN /\ r.st = "live"
                 /\ ~(r.locked # 0 /\ now - r.locked < opt.o.lockExpire)
                 /\ ~(now - r.lastTimeUsed < opt.o.minIntervalBetweenUse)]_vars

\* a record whose lease had expired has been returned (it still carries the old
\* lock) while the other record is under an unexpired lease
C1_Witness ==
    \E c \in Callers, j \in Ids :
        /\ res[c].kind = "rec"
        /\ j # res[c].id
        /\ Live(res[c].id)
        /\ ident[res[c].id].locked # 0
        /\ ident[res[c].id].locked < now - opt.o.lockExpire
        /\ ident[res[c].id].lastTimeUsed = now
        /\ Live(j)
        /\ ident[j].locked # 0
        /\ now - ident[j].locked < opt.o.lockExpire

Pos(id) == CHOOSE k \in 1..Len(keys) : keys[k] = id
Avail(id) == Live(id) /\ _isAvailable(ident[id])

\* a is the available record with the largest (recentlyUsedFirst) or smallest
\* lastTimeUsed, and the first in map order among those that share it
IsBest(a) ==
    /\ Avail(a)
    /\ \A b \in Ids :
          (Avail(b) /\ b # a) =>
              \/ (IF opt.o.recentlyUsedFirst
                  THEN ident[a].lastTimeUsed > ident[b].lastTimeUsed
                  ELSE ident[a].lastTimeUsed < ident[b].lastTimeUsed)
              \/ (ident[a].lastTimeUsed = ident[b].lastTimeUsed /\ Pos(a) < Pos(b))

\* C2: among several available records get() returns the one with the maximum
\* lastTimeUsed if recentlyUsedFirst and the minimum if not, and among equal
\* lastTimeUsed the first in map iteration order.
C2_ReturnsBest ==
    [][\A c \in Callers : Returns(c) => IsBest(res'[c].id)]_vars

\* a record was returned at this second while the other record is available too
C2_Witness ==
    \E c \in Callers, j \in Ids :
        /\ res[c].kind = "rec"
        /\ j # res[c].id
        /\ Live(res[c].id)
        /\ ident[res[c].id].lastTimeUsed = now
        /\ ident[res[c].id].locked = 0
        /\ Avail(j)
        /\ ident[j].lastTimeUsed < now

\* ------------------------------------------------------------------ creator claims
InFlight == {c \in Callers : cr[c].phase # "off"}
Woken(c) == pc[c] = "await" /\ pc'[c] = "ready"
Fatal(c0) == c0.phase = "ret" /\ c0.out = "error"

\* C3: at most one run of the _createIdentity body (callback, sleep or store wait)
\* is in flight; a get() call that finds no record while one is in flight awaits
\* that run and starts none of its own; and all the calls a run wakes get the
\* same result from it.
C3_SingleFlight ==
    /\ [](/\ Cardinality(InFlight) <= 1
          /\ \A c \in Callers : pc[c] = "await" => (waitOn[c] = slot /\ InFlight = {slot}))
    /\ [][\A c1 \in Callers, c2 \in Callers :
             /\ (Woken(c1) /\ pc[c2] = "await") => Woken(c2)
             /\ (Woken(c1) /\ Woken(c2)) => got'[c1] = got'[c2]
             /\ Woken(c1) => got'[c1] = cr[waitOn[c1]].out]_vars

\* two get() calls await one run that another of them started
C3_Witness ==
    \E c1 \in Callers, c2 \in Callers :
        /\ c1 # c2
        /\ pc[c1] = "await"
        /\ pc[c2] = "await"
        /\ waitOn[c1] = c1
        /\ waitOn[c2] = c1
        /\ cr[c1].phase \in {"fn", "sleep", "wait"}

\* the creation callback or the classifier settles in this step, and the error
\* at hand is not retryable
ThrowsFatal(c) ==
    \/ (FnReturn(c, "Other") /\ ~opt.hasErr)
    \/ ClsReturn(c, "nothing")
    \/ ClsReturn(c, "throws")

\* C4: a creation error that is not retryable ends the run at once with that
\* error, whatever maxRetryCreateIdentities and allowNoIdentity are: no further
\* trial, no sleep, no store wait, no empty result, no record added; and every
\* get() call the run answers raises it.
C4_FatalErrorRaisedAtOnce ==
    [][\A c \in Callers :
          /\ ThrowsFatal(c) =>
                /\ Fatal(cr'[c])
                /\ cr'[c].trial = cr[c].trial
                /\ ident' = ident /\ keys' = keys /\ nextId' = nextId
          /\ (Woken(c) /\ Fatal(cr[waitOn[c]])) => got'[c] = "error"
          /\ (pc[c] = "ready" /\ got[c] = "error" /\ pc'[c] # "ready") =>
                (pc'[c] = "done" /\ res'[c].kind = "error")]_vars

\* a get() call has raised the creation error of the first trial although the
\* retry budget is 2 and allowNoIdentity is set
C4_Witness ==
    \E c \in Callers :
        /\ res[c].kind = "error"
        /\ opt.o.maxRetryCreateIdentities = 2
        /\ opt.o.allowNoIdentity
        /\ keys = <<>>

Exhausts(c) ==
    /\ cr[c].phase \in {"off", "fn", "cls"}
    /\ \/ cr'[c].phase \in {"sleep", "wait"}
       \/ (cr'[c].phase = "ret" /\ cr'[c].out \in {"false", "exhausted"})

\* C6: an exhausted attempt cycle ends by the first rule that matches:
\* (1) allowNoIdentity: the run returns false and get() returns empty;
\* (2) map not empty and polling interval > 0: sleep that long, then true;
\* (3) map empty, stored, waitForStoreUpdateWhenNoIdentity: wait for the store,
\*     load it, then true; (4) the run fails and get() raises the failure.
\* After true, get() scans again.
C6_ExhaustionOrder ==
    [][\A c \in Callers :
          /\ Exhausts(c) =>
                IF opt.o.allowNoIdentity
                THEN cr'[c].phase = "ret" /\ cr'[c].out = "false"
                ELSE IF keys # <<>> /\ opt.o.pollingIntervalWaitingForAvailable > 0
                THEN cr'[c].phase = "sleep" /\ cr'[c].wake = opt.o.pollingIntervalWaitingForAvailable
                ELSE IF keys = <<>> /\ opt.stored /\ opt.o.waitForStoreUpdateWhenNoIdentity
                THEN cr'[c].phase = "wait"
                ELSE cr'[c].phase = "ret" /\ cr'[c].out = "exhausted"
          /\ (cr[c].phase = "sleep" /\ cr'[c].phase # "sleep") =>
                (cr[c].wake = 0 /\ cr'[c].phase = "ret" /\ cr'[c].out = "true")
          /\ (cr[c].phase = "wait" /\ cr'[c].phase # "wait") =>
                /\ cr'[c].phase = "ret" /\ cr'[c].out = "true"
                /\ \A id \in Ids : store[id].st = "live" => ident'[id].st = "live"
          /\ (pc[c] = "ready" /\ pc'[c] # "ready") =>
                /\ got[c] = "false" => (pc'[c] = "done" /\ res'[c].kind = "empty")
                /\ got[c] = "exhausted" => (pc'[c] = "done" /\ res'[c].kind = "fail")
                /\ got[c] = "true" => (res'[c].kind = "rec" \/ pc'[c] = "await")]_vars

\* a run waits for the store: allowNoIdentity is off, the map is empty, the pool is
\* stored (rule 3), although a polling interval is set
C6_Witness ==
    \E c \in Callers :
        /\ cr[c].phase = "wait"
        /\ opt.o.pollingIntervalWaitingForAvailable > 0
        /\ opt.hasFn

\* a deprecate(logger, id) call on a live record of the map
DeprecateCall(id) == Live(id) /\ \E d \in BOOLEAN : Deprecate(id, FALSE, d)

\* C8 as stated: with m = maxDeprecationsBeforeRemoval >= 0 a record is tombstoned
\* exactly at the deprecate call that brings its counter to m, and with m < 0
\* deprecation never removes it.
C8_RemovedWhenCounterIsM ==
    [][\A id \in Ids :
          DeprecateCall(id) =>
              IF opt.o.maxDeprecationsBeforeRemoval < 0
              THEN ident'[id].st = "live"
              ELSE ident'[id].st = "tomb"
                       <=> ident[id].deprecated + 1 = opt.o.maxDeprecationsBeforeRemoval]_vars

\* C8: with m = maxDeprecationsBeforeRemoval >= 0 a record is tombstoned exactly at
\* the deprecate calls that bring its counter to m or more (so with m = 0 as with
\* m = 1 the first call removes it); below that it stays live with the counter one
\* higher; with m < 0 deprecation never removes it.
C8_RemovedWhenCounterReachesM ==
    [][\A id \in Ids :
          DeprecateCall(id) =>
              IF opt.o.maxDeprecationsBeforeRemoval < 0
                    \/ ident[id].deprecated + 1 < opt.o.maxDeprecationsBeforeRemoval
              THEN ident'[id].st = "live" /\ ident'[id].deprecated = ident[id].deprecated + 1
              ELSE ident'[id].st = "tomb"]_vars

\* with m = 2 the record that started with a counter of 0 has been tombstoned by
\* its second deprecation
C8_Witness ==
    /\ opt.o.maxDeprecationsBeforeRemoval = 2
    /\ hist.removedBy[2] = "deprecate"
    /\ ident[2].st = "tomb"

\* C9: once remove or a threshold-reaching deprecate has tombstoned an id, the id
\* is never again a live record of the map, and no later get() returns it.
C9_RemovedNeverComesBack ==
    /\ [](\A id \in Ids : hist.removedBy[id] # "" => ident[id].st # "live")
    /\ [][\A c \in Callers : Returns(c) => hist.removedBy[res'[c].id] = ""]_vars

\* the running flush ends with an error / without one
FlushFails == sync.phase \in {"sent", "lost"} /\ sync'.phase = "idle" /\ hist'.flush = "fail"
FlushSucceeds == sync.phase = "sent" /\ sync'.phase = "idle" /\ hist'.flush = "ok"

KeyOf(ks, id) == \E i \in 1..Len(ks) : ks[i] = id

\* C10: a flush that fails leaves every tombstone in the map, as a key whose value
\* is null, and it stays so until a flush succeeds; get() never returns a
\* tombstoned id; the next flush that succeeds leaves none of these ids a key.
C10_TombstoneOutlivesFailedFlush ==
    /\ [](\A id \in hist.tombAtFail : ident[id].st = "tomb" /\ KeyOf(keys, id))
    /\ [][/\ FlushFails =>
                \A id \in Ids : ident[id].st = "tomb" => (ident'[id].st = "tomb" /\ KeyOf(keys', id))
          /\ \A c \in Callers : Returns(c) => ident[res'[c].id].st = "live"
          /\ FlushSucceeds =>
                \A id \in hist.tombAtFail : ident'[id].st = "absent" /\ ~KeyOf(keys', id)]_vars

\* a tombstone that a failed flush had left in the map has been deleted by the
\* flush that succeeded after it
C10_Witness ==
    /\ hist.flush = "ok"
    /\ \E id \in hist.purged : hist.removedBy[id] # "" /\ ident[id].st = "absent"

\* the get() call of c is suspended: it awaits the creator run or is about to scan again
Suspended(c) == pc[c] \in {"await", "ready"}

\* the seconds the sleep that c awaits still has to go
SleepLeft(c) == IF pc[c] = "await" THEN cr[waitOn[c]].wake ELSE 0

\* the lease on the record is over: unlocked, or locked more than lockExpire seconds ago
LeaseOver(id) == ident[id].locked = 0 \/ now - ident[id].locked > opt.o.lockExpire

\* C7: one record, leased; no creation callback, allowNoIdentity off, polling
\* interval > 0. A second get() never fails and never returns empty; it does not
\* return while the lease is held and unexpired; and once the lease is released or
\* has expired it eventually returns that record (the clock of the model stops at
\* MaxTime, so the sleep under way must end by then).
C7_WaiterPollsUntilLeaseEnds ==
    /\ [](\A c \in Callers : res[c].kind \in {"none", "rec"})
    /\ [][\A c \in Callers : Returns(c) => (res'[c].id = 1 /\ LeaseOver(1))]_vars
    /\ \A c \in Callers :
          (Suspended(c) /\ LeaseOver(1) /\ now + SleepLeft(c) <= MaxTime)
              ~> (res[c].kind = "rec" /\ res[c].id = 1)

\* both callers hold the record and unlock was never called: the second call was
\* suspended until the first lease had expired
C7_Witness ==
    /\ \A c \in Callers : res[c].kind = "rec" /\ res[c].id = 1
    /\ calls = MaxPollCalls - 2
    /\ ident[1].locked = MaxTime

\* a mutator is called with an id string or a record snapshot
MutatorCall(id, bySnap) ==
    \/ Lock(id, bySnap)
    \/ \E snapLocked \in BOOLEAN : Unlock(id, bySnap, snapLocked, TRUE)
    \/ Touch(id, bySnap, TRUE)
    \/ Update(id, bySnap, 2, TRUE)
    \/ \E snapDep \in BOOLEAN : Renew(id, bySnap, snapDep, TRUE)
    \/ Deprecate(id, bySnap, TRUE)
    \/ Remove(id, bySnap, TRUE)

\* C11: a mutator called with an id string or with a snapshot whose id is not a key
\* of the map leaves the map unchanged: no key is added, no tombstone is created
\* and no field of a record changes.
C11_StaleReferenceIsNoOp ==
    [][\A id \in Ids, bySnap \in BOOLEAN :
          (ident[id].st = "absent" /\ MutatorCall(id, bySnap))
              => (ident' = ident /\ keys' = keys)]_vars

\* unlock is called on a live record, by id or by snapshot
UnlockCall(id) ==
    Live(id) /\ \E bySnap \in BOOLEAN, snapLocked \in BOOLEAN : Unlock(id, bySnap, snapLocked, TRUE)

\* C12: unlock of a record that is not locked changes no record, no key, nothing in
\* the store and schedules no flush; unlock leaves the record unlocked, and applying
\* unlock to the outcome of unlock gives that same outcome.
C12_UnlockOfUnlockedIsNoOp ==
    /\ [](\A id \in Known, bySnap \in BOOLEAN, snapLocked \in BOOLEAN :
             LET once == unlock(World, id, bySnap, snapLocked, TRUE)
             IN unlock(once, id, bySnap, snapLocked, TRUE) = once)
    /\ [][\A id \in Ids :
             UnlockCall(id) =>
                 /\ ident'[id].locked = 0
                 /\ ident[id].locked = 0 =>
                        (ident' = ident /\ keys' = keys /\ store' = store /\ sync' = sync)]_vars

\* unlock has been called on a record that was not locked, after an unlock that
\* cleared a lock (the flush of its touch is under way)
C12_Witness ==
    /\ hist.unlockNoop
    /\ \E id \in Ids : Live(id) /\ ident[id].locked = 0 /\ ident[id].lastTimeUsed = now
    /\ sync.phase = "sent"
    /\ calls = 0

\* C13: a flush that fails changes nothing in the map (every record keeps its
\* fields, every tombstone stays) and reaches no caller: no call's position or
\* result changes with it, and no call ever ends with an error.
C13_FailedFlushChangesNothing ==
    /\ [](\A c \in Callers : res[c].kind # "error")
    /\ [][FlushFails =>
             /\ ident' = ident /\ keys' = keys
             /\ pc' = pc /\ res' = res /\ got' = got /\ cr' = cr]_vars

\* a flush has failed while the map held a tombstone and a live record
C13_Witness ==
    /\ hist.flush = "fail"
    /\ sync.phase = "idle"
    /\ \E id \in Ids : ident[id].st = "tomb"
    /\ \E id \in Ids : Live(id)

\* store round trips under way, and the start of one
Up(wrapper) == IF wrapper.phase \in {"sent", "lost"} THEN 1 ELSE 0
FlightsUp == Up(sync) + Up(sync.orphan)
FlushStarts ==
    \/ Up(sync) = 0 /\ Up(sync') = 1
    \/ Up(sync.orphan) = 0 /\ Up(sync.orphan') = 1

\* C14: at most one store round trip is under way at any time, and none starts
\* while the window that an earlier start opened (minIntervalBetweenStoreUpdate
\* seconds) is still open, whoever asked for it: a mutator, destroy, or a call
\* made after a reload has replaced the wrapper.
C14_OneFlushPerWindow ==
    /\ [](FlightsUp <= 1)
    /\ [][FlushStarts => (sync.window = 0 /\ sync.orphan.window = 0)]_vars

\* destroy is called / destroy returns / a store round trip ends
DestroyCall == \E d \in BOOLEAN : Destroy(d)
DestroyReturns == sync.down # "done" /\ sync'.down = "done"
FlushEnds ==
    \/ Up(sync) = 1 /\ Up(sync') = 0
    \/ Up(sync.orphan) = 1 /\ Up(sync.orphan') = 0

\* C15: the call of destroy starts a flush at once, whatever the debounce window
\* and the flush before it, and destroy returns only with the end of a store round
\* trip that started at or after its call.
C15_DestroyFlushesAtOnce ==
    /\ [][DestroyCall => FlushStarts]_vars
    /\ [][DestroyReturns => FlushEnds]_vars
    /\ [](sync.down = "called" =>
             \/ sync.waiter = "queued" \/ sync.orphan.waiter = "queued"
             \/ (sync.waiter = "running" /\ Up(sync) = 1)
             \/ (sync.orphan.waiter = "running" /\ Up(sync.orphan) = 1))

\* the creation callback of c's run settles with no record: nothing, an invalid
\* payload, or an error that is retryable
TrialFails(c) ==
    \/ \E outcome \in {"nothing", "invalid", "Falsy", "JobRuntime"} : FnReturn(c, outcome)
    \/ ClsReturn(c, "message")

\* C16: with maxRetryCreateIdentities < 0 and a creation callback, a trial that
\* gives no record is followed by another invocation of the callback: the run never
\* reaches the exhaustion policy (no false, no sleep, no wait for the store, no
\* exhaustion error).
C16_NegativeBudgetRetriesForever ==
    [][\A c \in Callers :
          (opt.o.maxRetryCreateIdentities < 0 /\ opt.hasFn /\ TrialFails(c))
              => (cr'[c].phase = "fn" /\ cr'[c].trial = cr[c].trial + 1)]_vars

\* the run of c has applied the exhaustion policy
PolicyApplied(c) ==
    \/ cr[c].phase \in {"sleep", "wait"}
    \/ cr[c].phase = "ret" /\ cr[c].out \in {"false", "exhausted"}

\* C17: with maxRetryCreateIdentities = k >= 0 and a creation callback, a trial
\* without a record is followed by another invocation while the trial count is at
\* most k and by the exhaustion policy otherwise, so the policy is applied after
\* exactly k + 1 invocations; with no callback it is applied at the first trial and
\* the callback is never awaited.
C17_BudgetOfKGivesKPlusOneTrials ==
    /\ [](\A c \in Callers :
             /\ (PolicyApplied(c) /\ opt.hasFn /\ opt.o.maxRetryCreateIdentities >= 0)
                    => cr[c].trial = opt.o.maxRetryCreateIdentities + 1
             /\ (PolicyApplied(c) /\ ~opt.hasFn) => cr[c].trial = 1
             /\ ~opt.hasFn => cr[c].phase \notin {"fn", "cls"})
    /\ [][\A c \in Callers :
             (opt.o.maxRetryCreateIdentities >= 0 /\ TrialFails(c)) =>
                 IF cr[c].trial <= opt.o.maxRetryCreateIdentities
                 THEN cr'[c].phase = "fn" /\ cr'[c].trial = cr[c].trial + 1
                 ELSE cr'[c].trial = cr[c].trial /\ cr'[c].phase \in {"sleep", "wait", "ret"}]_vars

\* with a budget of 2 the policy has been applied at the third trial
C17_Witness ==
    \E c \in Callers :
        /\ PolicyApplied(c)
        /\ opt.hasFn
        /\ opt.o.maxRetryCreateIdentities = 2
        /\ cr[c].trial = 3

\* C18: the reload of a response changes no field of a record that is live in the
\* map, whatever the store's copy says; an entry the reload changes was not live:
\* it becomes the store's record, or it was a null entry and is deleted.
C18_ReloadKeepsLocalFields ==
    [][FlushSucceeds =>
          \A id \in Ids :
              /\ Live(id) => ident'[id] = ident[id]
              /\ ident'[id] # ident[id] =>
                    \/ ident'[id] = store[id] /\ store[id].st = "live"
                    \/ ident'[id] = Absent /\ ident[id].st = "tomb"]_vars

\* a record was touched again while the push of its first touch was under way (the
\* window of that push is over by now, so the second touch was queued behind the
\* run itself); the response has been loaded and the record keeps the later time
C18_Witness ==
    /\ hist.flush = "ok"
    /\ sync.phase = "idle" /\ sync.queued
    /\ now = 2
    /\ calls = MaxMutCalls - 2
    /\ Live(1) /\ ident[1].lastTimeUsed = 2
    /\ store[1].st = "live" /\ store[1].lastTimeUsed = 1

\* the null entry of id is deleted from the map
Purged(id) == ident[id].st = "tomb" /\ ident'[id].st = "absent"

\* C19 as stated: a null entry is deleted only when a flush succeeds whose push
\* carried it; one made while a flush is under way outlives the end of that flush.
C19_PurgedOnlyByFlushThatCarriedIt ==
    [][\A id \in Ids : Purged(id) => (FlushSucceeds /\ id \in sync.carried)]_vars

\* C19: in a stored pool a null entry is deleted only when a store round trip
\* succeeds, and then the store holds no record for the id; after such a success no
\* null entry is left, carried by the push or made afterwards: it is deleted when
\* the response has no record for the id and it is a live record again otherwise.
C19_PurgedOnlyBySuccessfulFlush ==
    [][/\ \A id \in Ids : Purged(id) => (FlushSucceeds /\ store[id].st # "live")
       /\ FlushSucceeds =>
             \A id \in Ids :
                 /\ ident'[id].st # "tomb"
                 /\ ident[id].st = "tomb" =>
                        ident'[id].st = (IF store[id].st = "live" THEN "live" ELSE "absent")]_vars

\* record 2 was created, returned and removed while a flush was under way; its
\* null entry has been deleted at the end of that flush, and the call queued by
\* the removal has not run yet
C19_Witness ==
    /\ hist.removedBy[2] = "remove"
    /\ ident[2].st = "absent" /\ store[2].st = "absent"
    /\ hist.flush = "ok"
    /\ sync.phase = "idle" /\ sync.queued
    /\ calls = MaxFreshCalls - 3

\* a consumer calls renew on id
RenewCall(id) == \E bySnap \in BOOLEAN, snapDep \in BOOLEAN : Renew(id, bySnap, snapDep, TRUE)

\* C20 as stated: while a record is in the map its deprecated counter never
\* decreases, whatever operation runs.
C20_DeprecatedNeverDecreases ==
    [][\A id \in Ids :
          (Live(id) /\ ident'[id].st = "live") =>
              ident'[id].deprecated >= ident[id].deprecated]_vars

\* C20: while a record is in the map its deprecated counter decreases only by a
\* renew call on that record, which sets a positive counter to 0; every other
\* operation, the reload at the end of a flush included, leaves it or raises it.
C20_DeprecatedDropsOnlyByRenew ==
    [][\A id \in Ids :
          (Live(id) /\ ident'[id].st = "live") =>
              \/ ident'[id].deprecated >= ident[id].deprecated
              \/ /\ RenewCall(id)
                 /\ ident[id].deprecated > 0
                 /\ ident'[id].deprecated = 0]_vars

\* record 1 has been renewed: its counter is 0 in the map while the store still
\* has the 1 that was loaded or pushed before
C20_Witness ==
    /\ Live(1) /\ ident[1].deprecated = 0
    /\ store[1].st = "live" /\ store[1].deprecated = 1

\* the creation callback of c's run hands over a record, which _add puts in the map
CreationAdds(c) == FnReturn(c, "record")

\* C21: a record the creation callback has just added, and a record another
\* consumer has just unlocked, is available to the scan that follows, whatever
\* minIntervalBetweenUse is; so the first get() on an empty pool with nobody else
\* calling has at most one record created for it.
C21_AddedOrUnlockedIsSelectable ==
    /\ [][\A c \in Callers : CreationAdds(c) => _isAvailable(ident'[nextId])]_vars
    /\ [][\A id \in Ids :
             (UnlockCall(id) /\ ident[id].locked # 0) => _isAvailable(ident'[id])]_vars
    /\ [](calls = MaxCalls - 1 => nextId <= 2)

\* this step leaves a flush asked for: one has started in it, or one is queued
FlushScheduled == sync'.queued \/ (Up(sync) = 0 /\ Up(sync') = 1)

\* the store has every record of the map as the map has it, and no record the map
\* has dropped
StoreHoldsMap ==
    \A id \in Ids :
        IF Live(id) THEN store[id] = ident[id] ELSE store[id].st # "live"

\* C22: every mutator call that changes the map leaves a flush started or queued,
\* and once the consumers have stopped calling, a store that answers ends up
\* holding the map as it is (as far as the clock of the model lets the window pass).
C22_EveryChangeIsFlushed ==
    /\ [][\A id \in Ids : (MutatorCall(id, FALSE) /\ ident' # ident) => FlushScheduled]_vars
    /\ (calls = 0 /\ now + sync.window <= MaxTime) ~> StoreHoldsMap

\* C23: a record that get() has locked for one consumer is returned by no other
\* get() call until unlock or deprecate has been called on it or lockExpire seconds
\* have passed since its latest lock, whatever calls, creation runs and reloads
\* come in between.
C23_LeaseIsExclusive ==
    [][\A c \in Callers :
          Returns(c) =>
              LET at == hist.lease[res'[c].id]
              IN at = 0 \/ now - at >= opt.o.lockExpire]_vars

====
